---- MODULE Spec2Model ----
(***************************************************************************)
(* A model of the lambdalab macro subsystem and bounded runner.            *)
(*                                                                         *)
(* Text is a sequence of one-character strings.  Two characters of the     *)
(* program's alphabet are written in ASCII here: the lambda (the scanner   *)
(* accepts "\" and the Greek letter alike, parse.ts:217) is "\\", and the  *)
(* definition sign (U+225C) is ":=".                                       *)
(***************************************************************************)
EXTENDS Integers, Sequences, FiniteSets, TLC

VARIABLES
    macro_lookup,   \* Scanner.macro_lookup: the definitions, in insertion order
    macroList,      \* the rendered macro listing (updateMacroList)
    macroError,     \* the message shown in the macro error box, "" when cleared
    macroResult,    \* the steps shown in the macro result list
    lastDefine,     \* what the last run of macroSetUp.execute did
    programError,   \* the message shown in the program error box, "" when cleared
    programResult,  \* the steps shown in the program result list
    lastRun,        \* what the last run of programSetUp.execute did
    loop,           \* a bounded runner's for loop, one pass at a time
    subst,          \* a call of substitute: its arguments and what it returned
    steppers        \* one term under the four reducers, one step of each at a time

vars == <<macro_lookup, macroList, macroError, macroResult, lastDefine,
          programError, programResult, lastRun, loop, subst, steppers>>

(***************************************************************************)
(* Program constants and bounds                                            *)
(***************************************************************************)
\* How many reduction steps to execute before timing out
TIMEOUT == 100

\* The same constant in the earlier version of the Web interface
TIMEOUT_OLD == 32

(***************************************************************************)
(* AST                                                                     *)
(***************************************************************************)
Null == [kind |-> "null"]

Var(name) == [kind |-> "var", name |-> name]

Abs(vbl, body) == [kind |-> "abs", vbl |-> vbl, body |-> body]

App(e1, e2) == [kind |-> "app", e1 |-> e1, e2 |-> e2]

Macro(name, body) == [kind |-> "macro", name |-> name, body |-> body]

\* enum Strategy
Strategies == {"CBV", "CBN", "Normal", "Appl"}

MacroDefinition(name, cbv_val, cbn_val, full_val, unreduced) ==
    [name |-> name, cbv_val |-> cbv_val, cbn_val |-> cbn_val,
     full_val |-> full_val, unreduced |-> unreduced]

\* s.macro_lookup[name]; Null when the name has no entry
RECURSIVE lookup(_, _)
lookup(ml, name) ==
    IF ml = <<>> THEN Null
    ELSE IF Head(ml).name = name THEN Head(ml)
    ELSE lookup(Tail(ml), name)

\* A faulty store: a slot the new definition leaves absent keeps the value
\* the entry had
RECURSIVE store_merged(_, _)
store_merged(ml, def) ==
    LET keep(new, old) == IF new = Null THEN old ELSE new
        merged(old) == MacroDefinition(def.name, keep(def.cbv_val, old.cbv_val),
                                       keep(def.cbn_val, old.cbn_val),
                                       keep(def.full_val, old.full_val), def.unreduced)
    IN IF ml = <<>> THEN <<def>>
       ELSE IF Head(ml).name = def.name THEN <<merged(Head(ml))>> \o Tail(ml)
       ELSE <<Head(ml)>> \o store_merged(Tail(ml), def)

\* s.macro_lookup[name] = def: replaces in place, or appends a new key
RECURSIVE store(_, _)
store(ml, def) ==
    IF ml = <<>> THEN <<def>>
    ELSE IF Head(ml).name = def.name THEN <<def>> \o Tail(ml)
    ELSE <<Head(ml)>> \o store(Tail(ml), def)

(***************************************************************************)
(* Scanner                                                                 *)
(***************************************************************************)
Whitespace == {" "}

VarChars == {"a", "b", "c", "d", "e", "f", "g", "h", "i", "j", "k", "l", "m",
             "n", "o", "p", "q", "r", "s", "t", "u", "v", "w", "x", "y", "z",
             "0", "1", "2", "3", "4", "5", "6", "7", "8", "9"}

MacroChars == {"A", "B", "C", "D", "E", "F", "G", "H", "I", "J", "K", "L", "M",
               "N", "O", "P", "Q", "R", "S", "T", "U", "V", "W", "X", "Y", "Z"}

LambdaChar == "\\"

DefChar == ":="

\* The offset after the longest run of characters of class cs that starts at off
RECURSIVE runEnd(_, _, _)
runEnd(str, off, cs) ==
    IF off < Len(str) /\ str[off + 1] \in cs THEN runEnd(str, off + 1, cs) ELSE off

RECURSIVE join(_)
join(cs) == IF cs = <<>> THEN "" ELSE Head(cs) \o join(Tail(cs))

\* scan(re) for a character-class regular expression re = [cs]+ or [cs]*:
\* the matched text ("" for no match) and the offset after it
scan(str, off, cs) ==
    LET end == runEnd(str, off, cs)
    IN [text |-> join(SubSeq(str, off + 1, end)), offset |-> end]

\* scan(re) for a regular expression matching the single character c
scanChar(str, off, c) ==
    IF off < Len(str) /\ str[off + 1] = c
    THEN [text |-> c, offset |-> off + 1]
    ELSE [text |-> "", offset |-> off]

skip_whitespace(str, off) == scan(str, off, Whitespace).offset

parse_var_name(str, off) == scan(str, off, VarChars)

parse_macro_name(str, off) == scan(str, off, MacroChars)

\* throw s.error(msg): a parse result carrying the ParseError
error(msg, off) == [expr |-> Null, offset |-> off, err |-> msg]

parsed(e, off) == [expr |-> e, offset |-> off, err |-> ""]

(***************************************************************************)
(* Parser                                                                  *)
(*                                                                         *)
(* A local operator applied to a call, LET k(r) == ... IN k(f(x)), names   *)
(* the call's result r once, as the code's `let r = f(x)` does.            *)
(***************************************************************************)
\* A faulty resolution: the strategy's value is tried before the normal form
resolve_strategy_first(mac, eval_strat) ==
    IF eval_strat = "CBV" /\ mac.cbv_val # Null THEN mac.cbv_val
    ELSE IF eval_strat = "CBN" /\ mac.cbn_val # Null THEN mac.cbn_val
    ELSE IF mac.full_val # Null THEN mac.full_val
    ELSE mac.unreduced

\* A faulty resolution: the unreduced body whatever values are stored
resolve_unreduced(mac, eval_strat) == mac.unreduced

\* The expression a reference to mac stands for under eval_strat
resolve(mac, eval_strat) ==
    IF mac.full_val # Null THEN mac.full_val
    ELSE IF eval_strat = "CBV"
    THEN (IF mac.cbv_val = Null THEN mac.unreduced ELSE mac.cbv_val)
    ELSE IF eval_strat = "CBN"
    THEN (IF mac.cbn_val = Null THEN mac.unreduced ELSE mac.cbn_val)
    ELSE mac.unreduced

parse_var(str, off) ==
    LET k(name) == IF name.text # "" THEN parsed(Var(name.text), name.offset)
                   ELSE parsed(Null, off)
    IN k(parse_var_name(str, off))

parse_macro(str, off, ml, eval_strat) ==
    LET found(name, mac) ==
            IF mac = Null THEN error("Macro undefined", name.offset)
            ELSE parsed(Macro(name.text, resolve(mac, eval_strat)), name.offset)
        k(name) == IF name.text # "" THEN found(name, lookup(ml, name.text))
                   ELSE parsed(Null, off)
    IN k(parse_macro_name(str, off))

RECURSIVE parse_expr_loop(_, _, _, _, _)
RECURSIVE parse_term(_, _, _, _)
RECURSIVE parse_abs(_, _, _, _)

parse_expr(str, off, ml, eval_strat) ==
    parse_expr_loop(str, skip_whitespace(str, off), ml, eval_strat, Null)

parse_expr_loop(str, off, ml, eval_strat, out_term) ==
    LET k(term) ==
            IF term.err # "" THEN term
            ELSE IF term.expr = Null
            THEN IF out_term = Null THEN error("expected term", off)
                 ELSE parsed(out_term, off)
            ELSE parse_expr_loop(str, skip_whitespace(str, term.offset), ml, eval_strat,
                                 IF out_term = Null THEN term.expr
                                 ELSE App(out_term, term.expr))
    IN k(parse_term(str, off, ml, eval_strat))

\* parse_term from "Try parentheses" on
parse_parens(str, off, ml, eval_strat) ==
    LET closing(expr, close) ==
            IF close.text # "" THEN parsed(expr.expr, close.offset)
            ELSE error("unbalanced parentheses", expr.offset)
        inner(expr) ==
            IF expr.err # "" THEN expr
            ELSE closing(expr, scanChar(str, expr.offset, ")"))
        k(open) == IF open.text # "" THEN inner(parse_expr(str, open.offset, ml, eval_strat))
                   ELSE parsed(Null, off)
    IN k(scanChar(str, off, "("))

parse_term(str, off, ml, eval_strat) ==
    LET tryAbs(abs) ==
            IF abs.err # "" \/ abs.expr # Null THEN abs
            ELSE parse_parens(str, off, ml, eval_strat)
        tryMacro(mac) ==
            IF mac.err # "" \/ mac.expr # Null THEN mac
            ELSE tryAbs(parse_abs(str, off, ml, eval_strat))
        tryVar(vbl) ==
            IF vbl.expr # Null THEN vbl
            ELSE tryMacro(parse_macro(str, off, ml, eval_strat))
    IN tryVar(parse_var(str, off))

parse_abs(str, off, ml, eval_strat) ==
    LET withBody(name, body) ==
            IF body.err # "" THEN body
            ELSE parsed(Abs(name.text, body.expr), body.offset)
        withDot(name, dot) ==
            IF dot.text = "" THEN error("expected dot after variable name", dot.offset)
            ELSE withBody(name, parse_expr(str, skip_whitespace(str, dot.offset),
                                           ml, eval_strat))
        withName(name) ==
            IF name.text = ""
            THEN error("expected variable name after lambda", name.offset)
            ELSE withDot(name, scanChar(str, skip_whitespace(str, name.offset), "."))
        k(lam) == IF lam.text = "" THEN parsed(Null, off)
                  ELSE withName(parse_var_name(str, skip_whitespace(str, lam.offset)))
    IN k(scanChar(str, off, LambdaChar))

\* parse(scanner, strat)
parse(str, ml, strat) ==
    LET k(expr) ==
            IF expr.err # "" THEN expr
            ELSE IF expr.offset < Len(str) THEN error("unexpected token", expr.offset)
            ELSE expr
    IN k(parse_expr(str, 0, ml, strat))

(***************************************************************************)
(* Substitution and the four one-step reducers                             *)
(***************************************************************************)
\* Free variables; a macro reference is closed
RECURSIVE free(_)
free(e) ==
    IF e.kind = "var" THEN {e.name}
    ELSE IF e.kind = "abs" THEN free(e.body) \ {e.vbl}
    ELSE IF e.kind = "app" THEN free(e.e1) \cup free(e.e2)
    ELSE {}

\* Every variable name occurring in e, free or bound
RECURSIVE names(_)
names(e) ==
    IF e.kind = "var" THEN {e.name}
    ELSE IF e.kind = "abs" THEN {e.vbl} \cup names(e.body)
    ELSE IF e.kind = "app" THEN names(e.e1) \cup names(e.e2)
    ELSE {}

\* A name built from y that is not in used
RECURSIVE fresh(_, _, _)
fresh(y, n, used) ==
    IF (y \o ToString(n)) \in used THEN fresh(y, n + 1, used) ELSE y \o ToString(n)

\* The free occurrences of y in e renamed to z
RECURSIVE rename(_, _, _)
rename(e, y, z) ==
    IF e.kind = "var" THEN (IF e.name = y THEN Var(z) ELSE e)
    ELSE IF e.kind = "abs"
    THEN (IF e.vbl = y THEN e ELSE Abs(e.vbl, rename(e.body, y, z)))
    ELSE IF e.kind = "app" THEN App(rename(e.e1, y, z), rename(e.e2, y, z))
    ELSE e

\* A faulty substitute: a binder that occurs free in value is not renamed
RECURSIVE substitute_capturing(_, _, _)
substitute_capturing(body, boundName, value) ==
    IF body.kind = "var" THEN (IF body.name = boundName THEN value ELSE body)
    ELSE IF body.kind = "app"
    THEN App(substitute_capturing(body.e1, boundName, value),
             substitute_capturing(body.e2, boundName, value))
    ELSE IF body.kind = "abs"
    THEN IF body.vbl = boundName THEN body
         ELSE Abs(body.vbl, substitute_capturing(body.body, boundName, value))
    ELSE body

RECURSIVE substitute(_, _, _)
substitute(body, boundName, value) ==
    IF body.kind = "var" THEN (IF body.name = boundName THEN value ELSE body)
    ELSE IF body.kind = "app"
    THEN App(substitute(body.e1, boundName, value),
             substitute(body.e2, boundName, value))
    ELSE IF body.kind = "abs"
    THEN IF body.vbl = boundName THEN body
         ELSE IF body.vbl \in free(value)
         THEN LET k(z) == Abs(z, substitute(rename(body.body, body.vbl, z),
                                            boundName, value))
              IN k(fresh(body.vbl, 0, names(body.body) \cup names(value)))
         ELSE Abs(body.vbl, substitute(body.body, boundName, value))
    ELSE body

\* The term a function position resolves to: macro references unfolded
RECURSIVE unfold(_)
unfold(e) == IF e.kind = "macro" THEN unfold(e.body) ELSE e

\* App(Abs(x, b), a) -> substitute(b, x, a), the function position unfolded
beta(f, arg) == substitute(f.body, f.vbl, arg)

\* A faulty call-by-value step: a reference is a step away from its body
RECURSIVE reduce_cbv_unfolding(_)
reduce_cbv_unfolding(e) ==
    IF e.kind = "macro" THEN e.body
    ELSE IF e.kind # "app" THEN Null
    ELSE LET stepArg(f, a) == IF a # Null THEN App(e.e1, a) ELSE beta(f, e.e2)
             stepFn(g) == IF g = Null THEN Null ELSE App(g, e.e2)
             k(f) == IF f.kind = "abs" THEN stepArg(f, reduce_cbv_unfolding(e.e2))
                     ELSE stepFn(reduce_cbv_unfolding(e.e1))
         IN k(unfold(e.e1))

RECURSIVE reduce_cbv(_)
reduce_cbv(e) ==
    IF e.kind = "macro" THEN reduce_cbv(e.body)
    ELSE IF e.kind # "app" THEN Null
    ELSE LET stepArg(f, a) == IF a # Null THEN App(e.e1, a) ELSE beta(f, e.e2)
             stepFn(g) == IF g = Null THEN Null ELSE App(g, e.e2)
             k(f) == IF f.kind = "abs" THEN stepArg(f, reduce_cbv(e.e2))
                     ELSE stepFn(reduce_cbv(e.e1))
         IN k(unfold(e.e1))

\* A faulty call-by-name step: the argument is reduced before it is passed
reduce_cbn_eager(e) == reduce_cbv(e)

RECURSIVE reduce_cbn(_)
reduce_cbn(e) ==
    IF e.kind = "macro" THEN reduce_cbn(e.body)
    ELSE IF e.kind # "app" THEN Null
    ELSE LET stepFn(g) == IF g = Null THEN Null ELSE App(g, e.e2)
             k(f) == IF f.kind = "abs" THEN beta(f, e.e2)
                     ELSE stepFn(reduce_cbn(e.e1))
         IN k(unfold(e.e1))

RECURSIVE reduce_normal(_)
reduce_normal(e) ==
    IF e.kind = "macro" THEN reduce_normal(e.body)
    ELSE IF e.kind = "var" THEN Null
    ELSE IF e.kind = "abs"
    THEN LET under(b) == IF b = Null THEN Null ELSE Abs(e.vbl, b)
         IN under(reduce_normal(e.body))
    ELSE LET stepArg(a) == IF a = Null THEN Null ELSE App(e.e1, a)
             stepFn(g) == IF g # Null THEN App(g, e.e2)
                          ELSE stepArg(reduce_normal(e.e2))
             k(f) == IF f.kind = "abs" THEN beta(f, e.e2)
                     ELSE stepFn(reduce_normal(e.e1))
         IN k(unfold(e.e1))

RECURSIVE reduce_appl(_)
reduce_appl(e) ==
    IF e.kind = "macro" THEN reduce_appl(e.body)
    ELSE IF e.kind = "var" THEN Null
    ELSE IF e.kind = "abs"
    THEN LET under(b) == IF b = Null THEN Null ELSE Abs(e.vbl, b)
         IN under(reduce_appl(e.body))
    ELSE LET fire(f) == IF f.kind = "abs" THEN beta(f, e.e2) ELSE Null
             stepArg(a) == IF a # Null THEN App(e.e1, a) ELSE fire(unfold(e.e1))
             stepFn(g) == IF g # Null THEN App(g, e.e2)
                          ELSE stepArg(reduce_appl(e.e2))
         IN stepFn(reduce_appl(e.e1))

\* A faulty selection: call-by-name runs the normal-order reducer
reduce_misselected(strat, e) ==
    IF strat = "CBN" THEN reduce_normal(e)
    ELSE IF strat = "Normal" THEN reduce_normal(e)
    ELSE IF strat = "Appl" THEN reduce_appl(e)
    ELSE reduce_cbv(e)

\* The reducer a strategy selects
reduce(strat, e) ==
    IF strat = "CBN" THEN reduce_cbn(e)
    ELSE IF strat = "Normal" THEN reduce_normal(e)
    ELSE IF strat = "Appl" THEN reduce_appl(e)
    ELSE reduce_cbv(e)

(***************************************************************************)
(* Pretty-printer                                                          *)
(***************************************************************************)
RECURSIVE pretty(_)
pretty(e) ==
    IF e.kind = "var" THEN e.name
    ELSE IF e.kind = "macro" THEN e.name
    ELSE IF e.kind = "abs" THEN LambdaChar \o e.vbl \o "." \o pretty(e.body)
    ELSE (IF e.e1.kind = "abs" THEN "(" \o pretty(e.e1) \o ")" ELSE pretty(e.e1))
         \o (IF e.e2.kind \in {"abs", "app"} THEN "(" \o pretty(e.e2) \o ")"
             ELSE " " \o pretty(e.e2))

(***************************************************************************)
(* The bounded runners                                                     *)
(***************************************************************************)
\* A runner's for loop before its first pass
loopStart(expr) ==
    [expr |-> expr, i |-> 0, steps |-> <<>>, done |-> FALSE, value |-> Null]

\* A faulty pass: the term is rendered after the step, not before it
loopPass_late(st, reducer, budget) ==
    IF ~(st.i < budget) THEN [st EXCEPT !.done = TRUE, !.value = Null]
    ELSE LET k(next_expr) ==
                 IF next_expr = Null THEN [st EXCEPT !.done = TRUE, !.value = st.expr]
                 ELSE [st EXCEPT !.steps = Append(st.steps, pretty(next_expr)),
                                 !.expr = next_expr, !.i = st.i + 1]
         IN k(reduce(reducer, st.expr))

\* A faulty pass: the loop test is i <= budget
loopPass_extra(st, reducer, budget) ==
    IF ~(st.i <= budget) THEN [st EXCEPT !.done = TRUE, !.value = Null]
    ELSE LET k(steps, next_expr) ==
                 IF next_expr = Null
                 THEN [st EXCEPT !.steps = steps, !.done = TRUE, !.value = st.expr]
                 ELSE [st EXCEPT !.steps = steps, !.expr = next_expr, !.i = st.i + 1]
         IN k(Append(st.steps, pretty(st.expr)), reduce(reducer, st.expr))

\* A faulty pass: when the budget is used up, a term without a step is still
\* returned
loopPass_generous(st, reducer, budget) ==
    IF ~(st.i < budget)
    THEN [st EXCEPT !.done = TRUE,
                    !.value = IF reduce(reducer, st.expr) = Null THEN st.expr ELSE Null]
    ELSE LET k(steps, next_expr) ==
                 IF next_expr = Null
                 THEN [st EXCEPT !.steps = steps, !.done = TRUE, !.value = st.expr]
                 ELSE [st EXCEPT !.steps = steps, !.expr = next_expr, !.i = st.i + 1]
         IN k(Append(st.steps, pretty(st.expr)), reduce(reducer, st.expr))

\* One pass of the for loop under the given budget, the loop test included
loopPass(st, reducer, budget) ==
    IF ~(st.i < budget) THEN [st EXCEPT !.done = TRUE, !.value = Null]
    ELSE LET k(steps, next_expr) ==
                 IF next_expr = Null
                 THEN [st EXCEPT !.steps = steps, !.done = TRUE, !.value = st.expr]
                 ELSE [st EXCEPT !.steps = steps, !.expr = next_expr, !.i = st.i + 1]
         IN k(Append(st.steps, pretty(st.expr)), reduce(reducer, st.expr))

\* Up to n passes of the for loop, none after the loop is left
RECURSIVE loopPasses(_, _, _, _)
loopPasses(st, reducer, budget, n) ==
    IF st.done \/ n = 0 THEN st
    ELSE IF n = 1 THEN loopPass(st, reducer, budget)
    ELSE LET k(half) == IF half.done THEN half
                        ELSE loopPasses(half, reducer, budget, n - (n \div 2))
         IN k(loopPasses(st, reducer, budget, n \div 2))

\* The for loop run until it is left: budget passes and the last loop test
loopRun(st, reducer, budget) == loopPasses(st, reducer, budget, budget + 1)

\* find_value(expr, reduce): [value, steps]
find_value(expr, reducer) ==
    IF expr = Null THEN [value |-> Null, steps |-> <<>>]
    ELSE LET k(st) == [value |-> st.value, steps |-> st.steps]
         IN k(loopRun(loopStart(expr), reducer, TIMEOUT))

\* A faulty is_closed_in_context: indexOf compared with -1, so that every
\* variable counts as bound
RECURSIVE is_closed_in_context_any(_, _)
is_closed_in_context_any(e, context) ==
    IF e.kind = "var" THEN TRUE
    ELSE IF e.kind = "app"
    THEN is_closed_in_context_any(e.e1, context) /\ is_closed_in_context_any(e.e2, context)
    ELSE IF e.kind = "abs" THEN is_closed_in_context_any(e.body, Append(context, e.vbl))
    ELSE TRUE

RECURSIVE is_closed_in_context(_, _)
is_closed_in_context(e, context) ==
    IF e.kind = "var" THEN \E k \in 1..Len(context) : context[k] = e.name
    ELSE IF e.kind = "app"
    THEN is_closed_in_context(e.e1, context) /\ is_closed_in_context(e.e2, context)
    ELSE IF e.kind = "abs" THEN is_closed_in_context(e.body, Append(context, e.vbl))
    ELSE TRUE

is_closed(e) == is_closed_in_context(e, <<>>)

(***************************************************************************)
(* Macro definition                                                        *)
(***************************************************************************)
\* s.str.indexOf(c): the 0-based index of the first c, -1 when there is none
RECURSIVE indexFrom(_, _, _)
indexFrom(str, c, k) ==
    IF k >= Len(str) THEN -1
    ELSE IF str[k + 1] = c THEN k
    ELSE indexFrom(str, c, k + 1)

indexOf(str, c) == indexFrom(str, c, 0)

\* s.str.substring(from)
substring(str, from) == SubSeq(str, from + 1, Len(str))

\* What a call of add_macro leaves: the table, and the ParseError it throws
thrown(ml, msg, pos) ==
    [macro_lookup |-> ml, err |-> msg, pos |-> pos, steps |-> <<>>,
     name |-> "", full_expr |-> Null, tried |-> {}]

\* What a call of add_macro leaves: the table, and the steps it returns;
\* tried is the set of reducers it ran
returned(ml, steps, name, full_expr, tried) ==
    [macro_lookup |-> ml, err |-> "", pos |-> 0, steps |-> steps,
     name |-> name, full_expr |-> full_expr, tried |-> tried]

\* A faulty add_macro: the normal form is stored in the strategies' slots
add_macro_full_by_name(ml, macro_name, full_expr, fullSteps) ==
    returned(store(ml, MacroDefinition(macro_name, fullSteps.value, fullSteps.value,
                                       Null, full_expr)),
             fullSteps.steps, macro_name, full_expr, {"Normal"})

\* add_macro where normal order found a value: the normal form alone is stored
add_macro_full(ml, macro_name, full_expr, fullSteps) ==
    returned(store(ml, MacroDefinition(macro_name, Null, Null, fullSteps.value, full_expr)),
             fullSteps.steps, macro_name, full_expr, {"Normal"})

\* A faulty add_macro: a body no reducer finds a value for is refused
add_macro_by_value_strict(ml, macro_name, full_expr, fullSteps, cbnSteps, cbvSteps) ==
    IF cbnSteps.value # Null
    THEN returned(store(ml, MacroDefinition(macro_name, cbvSteps.value, cbnSteps.value,
                                            Null, full_expr)),
                  cbnSteps.steps, macro_name, full_expr, {"Normal", "CBN", "CBV"})
    ELSE thrown(ml, "Macro has no value", 0)

\* A faulty add_macro: the strategies' values are stored when either exists
add_macro_by_value_either(ml, macro_name, full_expr, fullSteps, cbnSteps, cbvSteps) ==
    IF cbnSteps.value # Null \/ cbvSteps.value # Null
    THEN returned(store(ml, MacroDefinition(macro_name, cbvSteps.value, cbnSteps.value,
                                            Null, full_expr)),
                  cbnSteps.steps, macro_name, full_expr, {"Normal", "CBN", "CBV"})
    ELSE returned(store(ml, MacroDefinition(macro_name, Null, Null, Null, full_expr)),
                  fullSteps.steps, macro_name, full_expr, {"Normal", "CBN", "CBV"})

\* add_macro from the test of the call-by-name value on
add_macro_by_value(ml, macro_name, full_expr, fullSteps, cbnSteps, cbvSteps) ==
    IF cbnSteps.value # Null
    THEN returned(store(ml, MacroDefinition(macro_name, cbvSteps.value, cbnSteps.value,
                                            Null, full_expr)),
                  cbnSteps.steps, macro_name, full_expr, {"Normal", "CBN", "CBV"})
    ELSE returned(store(ml, MacroDefinition(macro_name, Null, Null, Null, full_expr)),
                  fullSteps.steps, macro_name, full_expr, {"Normal", "CBN", "CBV"})

\* add_macro from the evaluation of the parsed body on
add_macro_eval(ml, macro_name, inputStr, full_expr) ==
    LET byName(fullSteps, cbn_expr, cbv_expr) ==
            IF cbn_expr.err # "" THEN thrown(ml, cbn_expr.err, cbn_expr.offset)
            ELSE IF cbv_expr.err # "" THEN thrown(ml, cbv_expr.err, cbv_expr.offset)
            ELSE add_macro_by_value(ml, macro_name, full_expr, fullSteps,
                                    find_value(cbn_expr.expr, "CBN"),
                                    find_value(cbv_expr.expr, "CBV"))
        k(fullSteps) ==
            IF fullSteps.value # Null
            THEN add_macro_full(ml, macro_name, full_expr, fullSteps)
            ELSE byName(fullSteps, parse_expr(inputStr, 0, ml, "CBN"),
                        parse_expr(inputStr, 0, ml, "CBV"))
    IN k(find_value(full_expr, "Normal"))

\* A faulty add_macro: the body is stored before it is checked for closedness
add_macro_stored_unchecked(ml, macro_name, inputStr, full) ==
    IF ~is_closed(full.expr)
    THEN thrown(store(ml, MacroDefinition(macro_name, Null, Null, Null, full.expr)),
                "Macros must be closed terms", full.offset)
    ELSE add_macro_eval(ml, macro_name, inputStr, full.expr)

\* add_macro from the closedness check on
add_macro_checked(ml, macro_name, inputStr, full) ==
    IF ~is_closed(full.expr)
    THEN thrown(ml, "Macros must be closed terms", full.offset)
    ELSE add_macro_eval(ml, macro_name, inputStr, full.expr)

\* add_macro from the parse of the body on
add_macro_body(str, ml, macro_name, eq) ==
    LET k(inputStr, full_expr) ==
            IF full_expr.err # "" THEN thrown(ml, full_expr.err, full_expr.offset)
            ELSE add_macro_checked(ml, macro_name, inputStr, full_expr)
    IN k(substring(str, indexOf(str, DefChar) + 1),
         parse_expr(str, skip_whitespace(str, eq.offset), ml, "Normal"))

add_macro(str, ml) ==
    LET withEq(macro_name, eq) ==
            IF eq.text = ""
            THEN thrown(ml, "Improperly formatted macro definition", eq.offset)
            ELSE add_macro_body(str, ml, macro_name.text, eq)
        k(macro_name) ==
            IF macro_name.text = ""
            THEN thrown(ml, "Improperly formatted macro definition", macro_name.offset)
            ELSE withEq(macro_name,
                        scanChar(str, skip_whitespace(str, macro_name.offset), DefChar))
    IN k(parse_macro_name(str, skip_whitespace(str, 0)))

(***************************************************************************)
(* Dependencies, sorting and recompilation                                 *)
(***************************************************************************)
\* The macro names referenced in e, in order of occurrence
RECURSIVE references(_)
references(e) ==
    IF e.kind = "macro" THEN <<e.name>>
    ELSE IF e.kind = "abs" THEN references(e.body)
    ELSE IF e.kind = "app" THEN references(e.e1) \o references(e.e2)
    ELSE <<>>

\* getDependencies(macro, scanner): one edge <<dependency, dependent>> for
\* each reference in macro's unreduced body
getDependencies(macro) ==
    LET k(refs) == [j \in 1..Len(refs) |-> <<refs[j], macro.name>>]
    IN k(references(macro.unreduced))

RECURSIVE allDependencies(_)
allDependencies(ml) ==
    IF ml = <<>> THEN <<>>
    ELSE getDependencies(Head(ml)) \o allDependencies(Tail(ml))

\* toposort's outgoing edges of node: its successors, first occurrence first
RECURSIVE outgoing(_, _, _)
outgoing(edges, node, acc) ==
    IF edges = <<>> THEN acc
    ELSE outgoing(Tail(edges), node,
                  IF /\ Head(edges)[1] = node
                     /\ ~\E j \in 1..Len(acc) : acc[j] = Head(edges)[2]
                  THEN Append(acc, Head(edges)[2]) ELSE acc)

\* toposort's visit(node, i, predecessors); sorted is filled from its end
RECURSIVE visit(_, _, _, _)
RECURSIVE visitChildren(_, _, _, _, _)
visit(node, predecessors, st, edges) ==
    IF st.cyclic THEN st
    ELSE IF node \in predecessors THEN [st EXCEPT !.cyclic = TRUE]
    ELSE IF node \in st.visited THEN st
    ELSE LET placed(st2) ==
                 IF st2.cyclic THEN st2 ELSE [st2 EXCEPT !.sorted = <<node>> \o @]
             k(out) == placed(visitChildren(out, Len(out), predecessors \cup {node},
                                            [st EXCEPT !.visited = @ \cup {node}],
                                            edges))
         IN k(outgoing(edges, node, <<>>))

visitChildren(out, i, predecessors, st, edges) ==
    IF i = 0 THEN st
    ELSE visitChildren(out, i - 1, predecessors,
                       visit(out[i], predecessors, st, edges), edges)

RECURSIVE toposortFrom(_, _, _, _)
toposortFrom(nodes, i, st, edges) ==
    IF i = 0 THEN st
    ELSE toposortFrom(nodes, i - 1, visit(nodes[i], {}, st, edges), edges)

\* toposort.array(nodes, edges): the sorted names, or cyclic when it throws
toposort(nodes, edges) ==
    toposortFrom(nodes, Len(nodes),
                 [visited |-> {}, sorted |-> <<>>, cyclic |-> FALSE], edges)

\* A faulty sortMacros: the macros in table order, a cycle never reported
sortMacros_unchecked(ml) == [cyclic |-> FALSE, sorted |-> ml]

\* A faulty sortMacros: the dependents come before their dependencies
sortMacros_reversed(ml) ==
    LET k(r) == [cyclic |-> r.cyclic,
                 sorted |-> [j \in 1..Len(r.sorted) |->
                                lookup(ml, r.sorted[Len(r.sorted) + 1 - j])]]
    IN k(toposort([j \in 1..Len(ml) |-> ml[j].name], allDependencies(ml)))

\* sortMacros(scanner): the definitions sorted by dependency, or cyclic
sortMacros(ml) ==
    LET k(r) == [cyclic |-> r.cyclic,
                 sorted |-> [j \in 1..Len(r.sorted) |-> lookup(ml, r.sorted[j])]]
    IN k(toposort([j \in 1..Len(ml) |-> ml[j].name], allDependencies(ml)))

\* scanner.copyMacros()
copyMacros(ml) == ml

\* e with every macro reference resolved afresh against ml
RECURSIVE reresolve(_, _, _)
reresolve(e, ml, eval_strat) ==
    IF e.kind = "macro" THEN Macro(e.name, resolve(lookup(ml, e.name), eval_strat))
    ELSE IF e.kind = "abs" THEN Abs(e.vbl, reresolve(e.body, ml, eval_strat))
    ELSE IF e.kind = "app"
    THEN App(reresolve(e.e1, ml, eval_strat), reresolve(e.e2, ml, eval_strat))
    ELSE e

\* One macro defined again from its unreduced body against ml
recompile(ml, macro) ==
    LET define(cbv_val, cbn_val, full_val, full_expr) ==
            store(ml, MacroDefinition(macro.name, cbv_val, cbn_val, full_val, full_expr))
        byValue(full_expr, cbnSteps, cbvSteps) ==
            IF cbnSteps.value # Null
            THEN define(cbvSteps.value, cbnSteps.value, Null, full_expr)
            ELSE define(Null, Null, Null, full_expr)
        k(full_expr, fullSteps) ==
            IF fullSteps.value # Null THEN define(Null, Null, fullSteps.value, full_expr)
            ELSE byValue(full_expr,
                         find_value(reresolve(macro.unreduced, ml, "CBN"), "CBN"),
                         find_value(reresolve(macro.unreduced, ml, "CBV"), "CBV"))
        again(full_expr) == k(full_expr, find_value(full_expr, "Normal"))
    IN again(reresolve(macro.unreduced, ml, "Normal"))

\* scanner.recompileMacros(sorted): every macro again, dependencies first
RECURSIVE recompileMacros(_, _)
recompileMacros(sorted, ml) ==
    IF sorted = <<>> THEN ml
    ELSE recompileMacros(Tail(sorted), recompile(ml, lookup(ml, Head(sorted).name)))

\* A faulty updateMacroList: the entries are displayed last first
updateMacroList_reversed(sortedMacros) ==
    [j \in 1..Len(sortedMacros) |->
        sortedMacros[Len(sortedMacros) + 1 - j].name \o " := "
            \o pretty(sortedMacros[Len(sortedMacros) + 1 - j].unreduced)]

\* updateMacroList(sortedMacros, macroList): the entries displayed
updateMacroList(sortedMacros) ==
    [j \in 1..Len(sortedMacros) |->
        sortedMacros[j].name \o " := " \o pretty(sortedMacros[j].unreduced)]

\* code.trim(): what is left of the code
trim(code) == SelectSeq(code, LAMBDA c : c \notin Whitespace)

\* A faulty rollback: the table stays as add_macro left it
rollback_kept(old, current) == current

\* scanner.macro_lookup = old
rollback(old, current) == old

\* A faulty macroSetUp.execute: the list is refreshed from the table that
\* holds the refused definition before the table is rolled back
macro_sorted_listed(old, r, sorted) ==
    IF sorted.cyclic
    THEN [macro_lookup |-> rollback(old, r.macro_lookup),
          err |-> "Cannot define circularly dependent macro",
          shown |-> TRUE, list |-> updateMacroList(r.macro_lookup), steps |-> <<>>,
          add |-> r]
    ELSE [macro_lookup |-> recompileMacros(sorted.sorted, r.macro_lookup),
          err |-> "", shown |-> TRUE, list |-> updateMacroList(sorted.sorted),
          steps |-> r.steps, add |-> r]

\* macroSetUp.execute from the call of sortMacros on
macro_sorted(old, r, sorted) ==
    IF sorted.cyclic
    THEN [macro_lookup |-> rollback(old, r.macro_lookup),
          err |-> "Cannot define circularly dependent macro",
          shown |-> FALSE, list |-> <<>>, steps |-> <<>>, add |-> r]
    ELSE [macro_lookup |-> recompileMacros(sorted.sorted, r.macro_lookup),
          err |-> "", shown |-> TRUE, list |-> updateMacroList(sorted.sorted),
          steps |-> r.steps, add |-> r]

\* macroSetUp.execute from the call of add_macro on
macro_added(old, r) ==
    IF r.err # ""
    THEN [macro_lookup |-> r.macro_lookup, err |-> r.err, shown |-> FALSE,
          list |-> <<>>, steps |-> <<>>, add |-> r]
    ELSE macro_sorted(old, r, sortMacros(r.macro_lookup))

\* macroSetUp.execute on code that is not blank
macro_execute(code, ml) == macro_added(copyMacros(ml), add_macro(code, ml))

(***************************************************************************)
(* Program execution                                                       *)
(***************************************************************************)
\* run(expr, budget, reduce): [steps, final]
run(expr, budget, reducer) ==
    IF expr = Null THEN [value |-> Null, steps |-> <<>>]
    ELSE LET k(st) == [value |-> st.value, steps |-> st.steps]
         IN k(loopRun(loopStart(expr), reducer, budget))

\* The first macro of the table whose resolved value is e, Null when none is
RECURSIVE matching(_, _, _)
matching(ml, e, strategy) ==
    IF ml = <<>> THEN Null
    ELSE IF resolve(Head(ml), strategy) = e THEN Head(ml)
    ELSE matching(Tail(ml), e, strategy)

\* resugar(e, macro_lookup, strategy): [expr, changed], outermost match first
RECURSIVE resugar(_, _, _)
resugar(e, ml, strategy) ==
    LET under(b) == [expr |-> Abs(e.vbl, b.expr), changed |-> b.changed]
        both(f, a) == [expr |-> App(f.expr, a.expr), changed |-> f.changed \/ a.changed]
        k(m) ==
            IF m # Null THEN [expr |-> Macro(m.name, e), changed |-> TRUE]
            ELSE IF e.kind = "abs" THEN under(resugar(e.body, ml, strategy))
            ELSE IF e.kind = "app"
            THEN both(resugar(e.e1, ml, strategy), resugar(e.e2, ml, strategy))
            ELSE [expr |-> e, changed |-> FALSE]
    IN k(matching(ml, e, strategy))

\* A faulty runCode: the resugared term is appended whether or not it changed
runCode_pushed(code, ml, strategy) ==
    LET result(expr, r, s) ==
            [err |-> "", steps |-> Append(r.steps, "=   " \o pretty(s.expr)),
             expr |-> expr.expr, final |-> r.value, sugared |-> s.changed]
        ran(expr, r) ==
            IF r.value # Null THEN result(expr, r, resugar(r.value, ml, strategy))
            ELSE [err |-> "", steps |-> r.steps, expr |-> expr.expr, final |-> Null,
                  sugared |-> FALSE]
        k(expr) ==
            IF expr.err # ""
            THEN [err |-> expr.err, steps |-> <<>>, expr |-> Null, final |-> Null,
                  sugared |-> FALSE]
            ELSE ran(expr, run(expr.expr, TIMEOUT, strategy))
    IN k(parse(code, ml, strategy))

\* runCode(scanner, strategy): the steps, or the ParseError
runCode(code, ml, strategy) ==
    LET result(expr, r, s) ==
            [err |-> "",
             steps |-> IF s.changed THEN Append(r.steps, "=   " \o pretty(s.expr))
                       ELSE r.steps,
             expr |-> expr.expr, final |-> r.value, sugared |-> s.changed]
        ran(expr, r) ==
            result(expr, r, IF r.value # Null THEN resugar(r.value, ml, strategy)
                            ELSE [expr |-> Null, changed |-> FALSE])
        k(expr) ==
            IF expr.err # ""
            THEN [err |-> expr.err, steps |-> <<>>, expr |-> Null, final |-> Null,
                  sugared |-> FALSE]
            ELSE ran(expr, run(expr.expr, TIMEOUT, strategy))
    IN k(parse(code, ml, strategy))

(***************************************************************************)
(* Inputs                                                                  *)
(***************************************************************************)
\* "I := \x.x"
DefI ==
    <<"I", " ", ":=", " ", "\\", "x", ".", "x">>

\* "I := \x.\y.y"
DefI2 ==
    <<"I", " ", ":=", " ", "\\", "x", ".", "\\", "y", ".", "y">>

\* "A := I"
DefA ==
    <<"A", " ", ":=", " ", "I">>

\* "A := \x.x"
DefAId ==
    <<"A", " ", ":=", " ", "\\", "x", ".", "x">>

\* "B := A I"
DefB ==
    <<"B", " ", ":=", " ", "A", " ", "I">>

\* "I := A"
DefIA ==
    <<"I", " ", ":=", " ", "A">>

\* "I := B"
DefIB ==
    <<"I", " ", ":=", " ", "B">>

\* "A := A"
DefAA ==
    <<"A", " ", ":=", " ", "A">>

\* "A := \x.y"
DefOpen ==
    <<"A", " ", ":=", " ", "\\", "x", ".", "y">>

\* "A := (\x.x"
DefUnbalanced ==
    <<"A", " ", ":=", " ", "(", "\\", "x", ".", "x">>

\* "a := \x.x"
DefNoName ==
    <<"a", " ", ":=", " ", "\\", "x", ".", "x">>

\* "A \x.x"
DefNoEq ==
    <<"A", " ", "\\", "x", ".", "x">>

\* "A := Z"
DefUndefined ==
    <<"A", " ", ":=", " ", "Z">>

\* "M := (\x.x x)(\x.x x)"
DefOmega ==
    <<"M", " ", ":=", " ", "(", "\\", "x", ".", "x", " ", "x", ")", "(",
      "\\", "x", ".", "x", " ", "x", ")">>

\* "M := \z.(\x.x x)(\x.x x)"
DefUnder ==
    <<"M", " ", ":=", " ", "\\", "z", ".", "(", "\\", "x", ".", "x", " ",
      "x", ")", "(", "\\", "x", ".", "x", " ", "x", ")">>

\* "M := (\x.\z.x)((\x.x x)(\x.x x))"
DefCbnOnly ==
    <<"M", " ", ":=", " ", "(", "\\", "x", ".", "\\", "z", ".", "x", ")",
      "(", "(", "\\", "x", ".", "x", " ", "x", ")", "(", "\\", "x", ".", "x",
      " ", "x", ")", ")">>

\* "M := (\x.x x)((\x.x x)((\x.x x)((\x.x x)((\x.x x)((\x.x x)((\y.y)(\y.y)))))))"
DefCbvOnly ==
    <<"M", " ", ":=", " ", "(", "\\", "x", ".", "x", " ", "x", ")", "(", "(",
      "\\", "x", ".", "x", " ", "x", ")", "(", "(", "\\", "x", ".", "x", " ",
      "x", ")", "(", "(", "\\", "x", ".", "x", " ", "x", ")", "(", "(", "\\",
      "x", ".", "x", " ", "x", ")", "(", "(", "\\", "x", ".", "x", " ", "x",
      ")", "(", "(", "\\", "y", ".", "y", ")", "(", "\\", "y", ".", "y", ")",
      ")", ")", ")", ")", ")", ")">>

\* "I := (\x.x)(\y.y)"
DefIRedex ==
    <<"I", " ", ":=", " ", "(", "\\", "x", ".", "x", ")", "(", "\\", "y",
      ".", "y", ")">>

\* "  "
Blank ==
    <<" ", " ">>

\* What is entered in the macro box: definitions that depend on each other,
\* and definitions that fail
MacroInputs ==
    {DefI, DefI2, DefA, DefAId, DefB, DefIA, DefIB,
     DefAA, DefOpen, DefUnbalanced, DefNoName, DefNoEq, DefUndefined, Blank}

\* What is entered in the macro box: bodies that converge under all, some
\* and none of the reducers
EvalInputs ==
    {DefI, DefIRedex, DefOmega, DefUnder, DefCbnOnly, DefCbvOnly, DefOpen, Blank}

\* "I"
ProgI ==
    <<"I">>

\* "M"
ProgM ==
    <<"M">>

\* "I I I"
ProgIII ==
    <<"I", " ", "I", " ", "I">>

\* "M M"
ProgMM ==
    <<"M", " ", "M">>

\* "(\x.x) y"
ProgRedex ==
    <<"(", "\\", "x", ".", "x", ")", " ", "y">>

\* "(I"
ProgUnbalanced ==
    <<"(", "I">>

\* "W := \y.\x.x"
DefW ==
    <<"W", " ", ":=", " ", "\\", "y", ".", "\\", "x", ".", "x">>

\* "\x.x"
ProgAbs ==
    <<"\\", "x", ".", "x">>

\* "\y.\x.x"
ProgNested ==
    <<"\\", "y", ".", "\\", "x", ".", "x">>

\* "\z.\x.x"
ProgUnder ==
    <<"\\", "z", ".", "\\", "x", ".", "x">>

\* "\z.z"
ProgPlain ==
    <<"\\", "z", ".", "z">>

\* "\z.z (\x.x) (\x.x)"
ProgTwo ==
    <<"\\", "z", ".", "z", " ", "(", "\\", "x", ".", "x", ")", " ", "(",
      "\\", "x", ".", "x", ")">>

\* What is entered in the macro box in a session that resugars
SugarDefs == {DefI, DefW, DefA}

\* What is entered in the program box in a session that resugars: values of
\* macros, terms that hold them, and terms that hold none
SugarInputs ==
    {ProgIII, ProgAbs, ProgNested, ProgUnder, ProgPlain, ProgTwo}

\* "(\x.x x)(\x.x x)"
ProgOmega ==
    <<"(", "\\", "x", ".", "x", " ", "x", ")", "(", "\\", "x", ".", "x", " ",
      "x", ")">>

\* What is entered in the program box
ProgramInputs == {ProgI, ProgIII, ProgOmega, ProgUnbalanced, Blank}

\* What is entered in the macro box in a session with the program box
SessionInputs == {DefI, DefA, DefIA, DefOpen}

\* "\x.x"
TermValue ==
    <<"\\", "x", ".", "x">>

\* "(\x.x) y"
TermRedex ==
    <<"(", "\\", "x", ".", "x", ")", " ", "y">>

\* "(\x.\y.x y)(\z.y)"
TermCapture ==
    <<"(", "\\", "x", ".", "\\", "y", ".", "x", " ", "y", ")", "(", "\\",
      "z", ".", "y", ")">>

\* "(\x.x x)(\x.x x)"
TermOmega ==
    <<"(", "\\", "x", ".", "x", " ", "x", ")", "(", "\\", "x", ".", "x", " ",
      "x", ")">>

\* "(\x.x x)((\x.x x)((\x.x x)((\x.x x)((\x.x x)((\x.x x)((\y.y)(\y.y)))))))"
TermDup ==
    <<"(", "\\", "x", ".", "x", " ", "x", ")", "(", "(", "\\", "x", ".", "x",
      " ", "x", ")", "(", "(", "\\", "x", ".", "x", " ", "x", ")", "(", "(",
      "\\", "x", ".", "x", " ", "x", ")", "(", "(", "\\", "x", ".", "x", " ",
      "x", ")", "(", "(", "\\", "x", ".", "x", " ", "x", ")", "(", "(", "\\",
      "y", ".", "y", ")", "(", "\\", "y", ".", "y", ")", ")", ")", ")", ")",
      ")", ")">>

\* "(\x.x x)(t)": by name, one step more than twice the steps of t and one
\* more when t ends at the identity
selfApplied(t) ==
    <<"(", "\\", "x", ".", "x", " ", "x", ")", "(">> \o t \o <<")">>

\* "(\y.y)(t)": one step more than t
identityApplied(t) ==
    <<"(", "\\", "y", ".", "y", ")", "(">> \o t \o <<")">>

\* "(\y.y)(\y.y)": one step to the identity
TermStep ==
    <<"(", "\\", "y", ".", "y", ")", "(", "\\", "y", ".", "y", ")">>

\* By name 23 steps to the identity
TermSteps23 ==
    identityApplied(selfApplied(selfApplied(selfApplied(TermStep))))

\* By name 14 steps to the identity
TermSteps14 ==
    selfApplied(selfApplied(identityApplied(TermStep)))

\* Terms whose first value by name is produced by the step before the last
\* one a runner takes, and by the last one: 31, 32, 99 and 100 steps
TermsAtBudget ==
    {identityApplied(selfApplied(TermSteps14)),
     selfApplied(identityApplied(TermSteps14)),
     identityApplied(selfApplied(selfApplied(TermSteps23))),
     selfApplied(identityApplied(selfApplied(TermSteps23)))}

\* The terms the runners are started on
RunTerms == {TermValue, TermRedex, TermCapture, TermOmega, TermDup} \cup TermsAtBudget

\* The radio buttons: one strategy checked, or none
Checked == Strategies \cup {"none"}

(***************************************************************************)
(* State machine                                                           *)
(***************************************************************************)
\* init_macros(this): the table a new Scanner starts with
init_macros == <<>>

NoDefine ==
    [code |-> <<>>, outcome |-> "init", name |-> "", full_expr |-> Null, tried |-> {},
     stored |-> Null, replaced |-> Null]

NoRun ==
    [code |-> <<>>, strategy |-> "none", outcome |-> "init", table |-> <<>>,
     after |-> <<>>, expr |-> Null, final |-> Null, sugared |-> FALSE]

NoLoop ==
    [runner |-> "none", reducer |-> "none", initial |-> Null, st |-> loopStart(Null)]

NoSubst ==
    [body |-> Null, boundName |-> "", value |-> Null, result |-> Null]

NoSteppers ==
    [initial |-> Null, passes |-> 0,
     at |-> [s \in Strategies |-> [expr |-> Null, halted |-> FALSE]]]

Init ==
    /\ macro_lookup = init_macros
    /\ macroList = updateMacroList(sortMacros(init_macros).sorted)
    /\ macroError = ""
    /\ macroResult = <<>>
    /\ lastDefine = NoDefine
    /\ programError = ""
    /\ programResult = <<>>
    /\ lastRun = NoRun
    /\ loop = NoLoop
    /\ subst = NoSubst
    /\ steppers = NoSteppers

\* Enter in the macro box: macroSetUp.execute.  The steps shown are the
\* steps add_macro returns.
MacroExecute(code) ==
    /\ IF trim(code) = <<>>
       THEN /\ macroError' = ""
            /\ lastDefine' = [NoDefine EXCEPT !.code = code, !.outcome = "blank"]
            /\ UNCHANGED <<macro_lookup, macroList, macroResult>>
       ELSE \E r \in {macro_execute(code, macro_lookup)} :
               /\ macro_lookup' = r.macro_lookup
               /\ macroError' = r.err
               /\ macroList' = IF r.shown THEN r.list ELSE macroList
               /\ macroResult' = IF r.shown THEN r.steps ELSE macroResult
               /\ lastDefine' = [code |-> code,
                                 outcome |-> IF r.err = "" THEN "defined" ELSE "error",
                                 name |-> r.add.name, full_expr |-> r.add.full_expr,
                                 tried |-> r.add.tried,
                                 stored |-> lookup(r.add.macro_lookup, r.add.name),
                                 replaced |-> lookup(macro_lookup, r.add.name)]
    /\ UNCHANGED <<programError, programResult, lastRun, loop, subst, steppers>>

\* A faulty programSetUp.execute: a program that does not parse leaves a
\* new, empty table behind
ProgramExecute_resetting(code, strategy) ==
    /\ IF trim(code) = <<>>
       THEN /\ programError' = ""
            /\ lastRun' = [NoRun EXCEPT !.code = code, !.outcome = "blank"]
            /\ UNCHANGED <<programResult, macro_lookup>>
       ELSE IF strategy = "none"
       THEN /\ lastRun' = [NoRun EXCEPT !.code = code, !.outcome = "nostrategy"]
            /\ UNCHANGED <<programError, programResult, macro_lookup>>
       ELSE \E r \in {runCode(code, macro_lookup, strategy)} :
               /\ programError' = r.err
               /\ programResult' = IF r.err = "" THEN r.steps ELSE programResult
               /\ macro_lookup' = IF r.err = "" THEN macro_lookup ELSE <<>>
               /\ lastRun' = [code |-> code, strategy |-> strategy,
                              table |-> macro_lookup,
                              after |-> lastDefine.code,
                              outcome |-> IF r.err # "" THEN "error"
                                          ELSE IF r.final = Null THEN "timeout"
                                          ELSE "value",
                              expr |-> r.expr, final |-> r.final,
                              sugared |-> r.sugared]
    /\ UNCHANGED <<macroList, macroError, macroResult, lastDefine, loop, subst, steppers>>

\* Enter or input in the program box, or a click on a strategy:
\* programSetUp.execute
ProgramExecute(code, strategy) ==
    /\ IF trim(code) = <<>>
       THEN /\ programError' = ""
            /\ lastRun' = [NoRun EXCEPT !.code = code, !.outcome = "blank"]
            /\ UNCHANGED programResult
       ELSE IF strategy = "none"
       THEN /\ lastRun' = [NoRun EXCEPT !.code = code, !.outcome = "nostrategy"]
            /\ UNCHANGED <<programError, programResult>>
       ELSE \E r \in {runCode(code, macro_lookup, strategy)} :
               /\ programError' = r.err
               /\ programResult' = IF r.err = "" THEN r.steps ELSE programResult
               /\ lastRun' = [code |-> code, strategy |-> strategy,
                              table |-> macro_lookup,
                              after |-> lastDefine.code,
                              outcome |-> IF r.err # "" THEN "error"
                                          ELSE IF r.final = Null THEN "timeout"
                                          ELSE "value",
                              expr |-> r.expr, final |-> r.final,
                              sugared |-> r.sugared]
    /\ UNCHANGED <<macro_lookup, macroList, macroError, macroResult, lastDefine, loop,
                   subst, steppers>>

\* A session: the two boxes in any order
Next ==
    \/ \E code \in SessionInputs : MacroExecute(code)
    \/ \E code \in ProgramInputs, strategy \in Checked : ProgramExecute(code, strategy)

Spec == Init /\ [][Next]_vars

\* A session that resugars what it evaluates
NextSugar ==
    \/ \E code \in SugarDefs : MacroExecute(code)
    \/ \E code \in SugarInputs, strategy \in Strategies : ProgramExecute(code, strategy)

SpecSugar == Init /\ [][NextSugar]_vars

\* The macro box alone, with definitions that depend on each other
NextDefine == \E code \in MacroInputs : MacroExecute(code)

SpecDefine == Init /\ [][NextDefine]_vars

\* The macro box alone, with bodies that converge or time out
NextEval == \E code \in EvalInputs : MacroExecute(code)

SpecEval == Init /\ [][NextEval]_vars

(***************************************************************************)
(* Calls of substitute                                                     *)
(***************************************************************************)
\* The variables of the terms substituted into, and of the values
SubstNames == {"x", "y"}

ValueNames == {"x", "y", "y0"}

\* T with the abstractions and the applications built from its terms
Grow(T, N) == T \cup {Abs(n, t) : n \in N, t \in T} \cup {App(t, u) : t, u \in T}

\* The bodies b of the abstractions Abs(y, b) substituted into
SubstBodies == Grow(Grow({Var(n) : n \in SubstNames}, SubstNames), SubstNames)

\* The values substituted
SubstValues == Grow({Var(n) : n \in ValueNames}, ValueNames)

InitSubst ==
    /\ macro_lookup = init_macros
    /\ macroList = <<>>
    /\ macroError = ""
    /\ macroResult = <<>>
    /\ lastDefine = NoDefine
    /\ programError = ""
    /\ programResult = <<>>
    /\ lastRun = NoRun
    /\ loop = NoLoop
    /\ steppers = NoSteppers
    /\ \E y \in SubstNames, b \in SubstBodies, boundName \in SubstNames,
          value \in SubstValues :
          subst = [body |-> Abs(y, b), boundName |-> boundName, value |-> value,
                   result |-> Null]

\* substitute(body, boundName, value) returns
Substitute ==
    /\ subst.result = Null
    /\ subst' = [subst EXCEPT !.result = substitute(subst.body, subst.boundName,
                                                    subst.value)]
    /\ UNCHANGED <<macro_lookup, macroList, macroError, macroResult, lastDefine,
                   programError, programResult, lastRun, loop, steppers>>

SpecSubst == InitSubst /\ [][Substitute]_vars

(***************************************************************************)
(* The runner's loop, pass by pass                                         *)
(***************************************************************************)
\* The loop bound of a runner: find_value's, and runCode's in the earlier
\* version of the Web interface
budgetOf(runner) == IF runner = "find_value" THEN TIMEOUT ELSE TIMEOUT_OLD

InitLoop ==
    /\ macro_lookup = init_macros
    /\ macroList = <<>>
    /\ macroError = ""
    /\ macroResult = <<>>
    /\ lastDefine = NoDefine
    /\ programError = ""
    /\ programResult = <<>>
    /\ lastRun = NoRun
    /\ \E runner \in {"find_value", "runCode"}, reducer \in Strategies, t \in RunTerms :
          \E e \in {parse(t, init_macros, reducer).expr} :
             loop = [runner |-> runner, reducer |-> reducer, initial |-> e,
                     st |-> loopStart(e)]
    /\ subst = NoSubst
    /\ steppers = NoSteppers

LoopPass ==
    /\ ~loop.st.done
    /\ loop' = [loop EXCEPT !.st = loopPass(loop.st, loop.reducer, budgetOf(loop.runner))]
    /\ UNCHANGED <<macro_lookup, macroList, macroError, macroResult, lastDefine,
                   programError, programResult, lastRun, subst, steppers>>

SpecLoop == InitLoop /\ [][LoopPass]_vars

(***************************************************************************)
(* Resolution of a reference, for every combination of slots               *)
(***************************************************************************)
\* The values a slot of a definition holds when it is present
SlotValues == {Abs("a", Var("a")), Abs("a", Abs("b", Var("a")))}

\* A slot: absent, or one of the values
Slots == {Null} \cup SlotValues

\* "(\x.x)(\u.u)", the unreduced body of the definition
SlotBody == App(Abs("x", Var("x")), Abs("u", Var("u")))

\* What is entered in the program box: references to the macro
ResolveInputs == {ProgM, ProgMM}

InitResolve ==
    /\ \E cbv_val \in Slots, cbn_val \in Slots, full_val \in Slots :
          macro_lookup = <<MacroDefinition("M", cbv_val, cbn_val, full_val, SlotBody)>>
    /\ macroList = <<"M := (\\x.x)(\\u.u)">>
    /\ macroError = ""
    /\ macroResult = <<>>
    /\ lastDefine = NoDefine
    /\ programError = ""
    /\ programResult = <<>>
    /\ lastRun = NoRun
    /\ loop = NoLoop
    /\ subst = NoSubst
    /\ steppers = NoSteppers

NextResolve ==
    \E code \in ResolveInputs, strategy \in Strategies : ProgramExecute(code, strategy)

SpecResolve == InitResolve /\ [][NextResolve]_vars

(***************************************************************************)
(* Terms used to state the properties                                      *)
(***************************************************************************)
CyclicMessage == "Cannot define circularly dependent macro"

ClosedMessage == "Macros must be closed terms"

FormatMessage == "Improperly formatted macro definition"

\* The edges of the dependency graph: <<a, b>> when a's unreduced body
\* references b
dependsOn(ml) ==
    UNION {{<<ml[j].name, b>> : b \in {references(ml[j].unreduced)[k] :
                                         k \in 1..Len(references(ml[j].unreduced))}} :
            j \in 1..Len(ml)}

\* The pairs <<a, c>> with <<a, b>> in R and <<b, c>> in S
compose(R, S) == {<<p[1][1], p[2][2]>> : p \in {q \in R \X S : q[1][2] = q[2][1]}}

\* R with the paths of up to 2^n edges
RECURSIVE paths(_, _)
paths(R, n) == IF n = 0 THEN R ELSE paths(R \cup compose(R, R), n - 1)

\* No macro of ml reaches itself along the dependency edges
acyclic(ml) == \A p \in paths(dependsOn(ml), Len(ml)) : p[1] # p[2]

\* The body of a well-formed definition parsed against ml: Null when the
\* name or the sign is missing or the body does not parse
definitionBody(code, ml) ==
    LET withEq(eq) ==
            IF eq.text = "" THEN Null ELSE parse_expr(code, eq.offset, ml, "Normal").expr
        k(name) ==
            IF name.text = "" THEN Null
            ELSE withEq(scanChar(code, skip_whitespace(code, name.offset), DefChar))
    IN k(parse_macro_name(code, skip_whitespace(code, 0)))

\* One pass of a reduction that halts at the first term without a step
settle(strat, s) ==
    IF s.halted THEN s
    ELSE LET k(next) == IF next = Null THEN [s EXCEPT !.halted = TRUE]
                        ELSE [expr |-> next, halted |-> FALSE]
         IN k(reduce(strat, s.expr))

\* n passes of settle
RECURSIVE settleTimes(_, _, _)
settleTimes(strat, s, n) ==
    IF n = 0 THEN s
    ELSE IF n = 1 THEN settle(strat, s)
    ELSE LET k(half) == IF half.halted THEN half
                        ELSE settleTimes(strat, half, n - (n \div 2))
         IN k(settleTimes(strat, s, n \div 2))

\* The term the reducer stops at within n passes from e, Null when it does
\* not stop within them
valueWithin(strat, e, n) ==
    LET k(s) == IF s.halted THEN s.expr ELSE Null
    IN k(settleTimes(strat, [expr |-> e, halted |-> FALSE], n))

\* One entry of a trace compared: entry s.k must render s.expr, and unless
\* it is the last entry s.expr must have a step, which the next entry renders
follow(reducer, steps, s) ==
    IF ~s.ok THEN s
    ELSE IF steps[s.k] # pretty(s.expr) THEN [s EXCEPT !.ok = FALSE]
    ELSE IF s.k = Len(steps) THEN s
    ELSE LET k(next) == IF next = Null THEN [s EXCEPT !.ok = FALSE]
                        ELSE [expr |-> next, k |-> s.k + 1, ok |-> TRUE]
         IN k(reduce(reducer, s.expr))

\* n entries compared
RECURSIVE followTimes(_, _, _, _)
followTimes(reducer, steps, s, n) ==
    IF n = 0 THEN s
    ELSE IF n = 1 THEN follow(reducer, steps, s)
    ELSE LET k(half) == IF ~half.ok THEN half
                        ELSE followTimes(reducer, steps, half, n - (n \div 2))
         IN k(followTimes(reducer, steps, s, n \div 2))

\* The term the last entry of steps renders, when the first entry renders e
\* and each later entry renders one step of the term before it; Null otherwise
traced(reducer, e, steps) ==
    LET k(s) == IF s.ok THEN s.expr ELSE Null
    IN k(followTimes(reducer, steps, [expr |-> e, k |-> 1, ok |-> TRUE], Len(steps)))

\* The inputs of the macro box that must fail, with the message of each
Failing ==
    {<<DefOpen, ClosedMessage>>, <<DefUnbalanced, "unbalanced parentheses">>,
     <<DefNoName, FormatMessage>>, <<DefNoEq, FormatMessage>>,
     <<DefUndefined, "Macro undefined">>}

(***************************************************************************)
(* Properties of SpecDefine                                                *)
(***************************************************************************)
\* C1: a define call that would close a dependency cycle fails with the
\* circular-dependency error, and the table after it is the table before it:
\* the same names, each with the same unreduced body and the same slots.
C1_CycleRolledBack ==
    [][/\ \A r \in {add_macro(lastDefine'.code, macro_lookup)} :
             (trim(lastDefine'.code) # <<>> /\ r.err = "" /\ ~acyclic(r.macro_lookup))
                => /\ lastDefine'.outcome = "error"
                   /\ macroError' = CyclicMessage
       /\ (lastDefine'.outcome = "error" /\ macroError' = CyclicMessage)
             => macro_lookup' = macro_lookup]_vars

\* A cycle I -> A -> I was refused while the table held I and A
C1_Witness ==
    /\ lastDefine.code = DefIA
    /\ lastDefine.outcome = "error"
    /\ macroError = CyclicMessage
    /\ Len(macro_lookup) = 2
    /\ lookup(macro_lookup, "A").unreduced = Macro("I", lookup(macro_lookup, "I").full_val)

\* C2: after any sequence of define calls, accepted or rejected, the
\* dependency graph of the table is acyclic: no macro references itself, and
\* no two macros reference each other, directly or through others.
C2_Acyclic ==
    /\ acyclic(macro_lookup)
    /\ \A j \in 1..Len(macro_lookup) :
          <<macro_lookup[j].name, macro_lookup[j].name>> \notin dependsOn(macro_lookup)
    /\ \A p \in dependsOn(macro_lookup) : <<p[2], p[1]>> \notin dependsOn(macro_lookup)

\* The table holds the chain B -> A -> I, and the last call tried to close it
C2_Witness ==
    /\ Len(macro_lookup) = 3
    /\ {<<"B", "A">>, <<"A", "I">>} \subseteq dependsOn(macro_lookup)
    /\ lastDefine.code \in {DefIB, DefAA}
    /\ lastDefine.outcome = "error"

\* C3: a define call that fails for another reason than a cycle (no name, no
\* definition sign, a body that does not parse, an undefined macro, a free
\* variable) throws before it writes: the table after it is the table before.
C3_FailureWritesNothing ==
    [][/\ (lastDefine'.outcome = "error" /\ macroError' # CyclicMessage)
             => /\ macro_lookup' = macro_lookup
                /\ lastDefine'.stored = Null
       /\ \A f \in Failing :
             lastDefine'.code = f[1]
                => /\ lastDefine'.outcome = "error"
                   /\ macroError' = f[2]]_vars

\* A reference to an undefined macro was refused while the table held macros
C3_Witness ==
    /\ lastDefine.code = DefUndefined
    /\ lastDefine.outcome = "error"
    /\ macroError = "Macro undefined"
    /\ Len(macro_lookup) >= 2

\* C4: every unreduced body in the table is closed (a reference to a macro
\* counting as closed), and a define call whose body has a variable that no
\* enclosing abstraction binds is refused with the closed-terms error and
\* stores nothing.
C4_BodiesClosed ==
    [][/\ \A j \in 1..Len(macro_lookup') : free(macro_lookup'[j].unreduced) = {}
       /\ \A b \in {definitionBody(lastDefine'.code, macro_lookup)} :
             (b # Null /\ free(b) # {})
                => /\ lastDefine'.outcome = "error"
                   /\ macroError' = ClosedMessage
                   /\ macro_lookup' = macro_lookup]_vars

\* A body with a free variable was refused while the table held macros
C4_Witness ==
    /\ lastDefine.code = DefOpen
    /\ lastDefine.outcome = "error"
    /\ macroError = ClosedMessage
    /\ Len(macro_lookup) >= 1
    /\ lookup(macro_lookup, "A") = Null

(***************************************************************************)
(* Properties of SpecLoop                                                  *)
(***************************************************************************)
\* C5: a run that reaches a term without a step within the budget stops there
\* and returns it: the first entry of the trace renders the initial term,
\* each later entry renders one step of the term before it, the last entry
\* renders the returned term, and no earlier term was without a step.
C5_TraceToValue ==
    (loop.st.done /\ loop.st.value # Null)
       => /\ loop.st.steps # <<>>
          /\ Len(loop.st.steps) <= budgetOf(loop.runner)
          /\ traced(loop.reducer, loop.initial, loop.st.steps) = loop.st.value
          /\ reduce(loop.reducer, loop.st.value) = Null
          /\ (reduce(loop.reducer, loop.initial) = Null
                => /\ Len(loop.st.steps) = 1
                   /\ loop.st.value = loop.initial)

\* A run that took steps and then stopped at a value
C5_Witness ==
    /\ loop.st.done
    /\ loop.st.value # Null
    /\ Len(loop.st.steps) > 2
    /\ loop.st.value # loop.initial

\* C6: a run applies the step function at most budget times; when it reaches
\* no value the result is none and the trace has exactly budget entries, each
\* rendering a term that has a step.
C6_Timeout ==
    /\ loop.st.i + (IF loop.st.done /\ loop.st.value # Null THEN 1 ELSE 0)
          <= budgetOf(loop.runner)
    /\ Len(loop.st.steps) <= budgetOf(loop.runner)
    /\ (loop.st.done /\ valueWithin(loop.reducer, loop.initial, budgetOf(loop.runner)) = Null)
          => /\ loop.st.value = Null
             /\ Len(loop.st.steps) = budgetOf(loop.runner)
             /\ \A t \in {traced(loop.reducer, loop.initial, loop.st.steps)} :
                   t # Null /\ reduce(loop.reducer, t) # Null

\* A run of the self-application term that used up its budget
C6_Witness ==
    /\ loop.st.done
    /\ loop.st.value = Null
    /\ loop.initial = parse(TermOmega, init_macros, "CBV").expr
    /\ Len(loop.st.steps) = budgetOf(loop.runner)
    /\ \A k \in 1..Len(loop.st.steps) : loop.st.steps[k] = loop.st.steps[1]

(***************************************************************************)
(* Properties of SpecEval                                                  *)
(***************************************************************************)
\* C7: when normal order finds a value of the body within the budget, the
\* definition stored holds that value as full_val and neither cbv_val nor
\* cbn_val, and the call-by-value and call-by-name reducers are not run.
C7_NormalFormOnly ==
    lastDefine.outcome = "defined"
       => \A nf \in {valueWithin("Normal", lastDefine.full_expr, TIMEOUT)} :
             nf # Null
                => /\ lastDefine.stored =
                         MacroDefinition(lastDefine.name, Null, Null, nf,
                                         lastDefine.full_expr)
                   /\ lookup(macro_lookup, lastDefine.name) = lastDefine.stored
                   /\ lastDefine.tried = {"Normal"}

\* A body that normal order reduced to its normal form was defined
C7_Witness ==
    /\ lastDefine.code = DefIRedex
    /\ lastDefine.outcome = "defined"
    /\ lastDefine.stored.full_val = Abs("y", Var("y"))
    /\ lastDefine.stored.unreduced # lastDefine.stored.full_val

\* C8: when normal order times out on the body, call-by-name and
\* call-by-value are each run on it, and the definition stored holds the
\* value call-by-name found as cbn_val and the value call-by-value found as
\* cbv_val, the latter also when call-by-name found none.
C8_EachStrategyStored ==
    (lastDefine.outcome = "defined"
        /\ valueWithin("Normal", lastDefine.full_expr, TIMEOUT) = Null)
       => /\ lastDefine.tried = {"Normal", "CBN", "CBV"}
          /\ lastDefine.stored.full_val = Null
          /\ lastDefine.stored.cbn_val =
                valueWithin("CBN", reresolve(lastDefine.full_expr, macro_lookup, "CBN"),
                            TIMEOUT)
          /\ lastDefine.stored.cbv_val =
                valueWithin("CBV", reresolve(lastDefine.full_expr, macro_lookup, "CBV"),
                            TIMEOUT)

\* C9: when neither normal order nor call-by-name nor call-by-value finds a
\* value of the body within the budget, the definition succeeds, the macro is
\* stored with its unreduced body and no slot, and a reference to a macro
\* stored so resolves to the unreduced body under every strategy.
C9_UnreducedOnly ==
    /\ \A b \in {definitionBody(lastDefine.code, <<>>)} :
          (b # Null /\ free(b) = {}
              /\ \A strat \in {"Normal", "CBN", "CBV"} : valueWithin(strat, b, TIMEOUT) = Null)
             => /\ lastDefine.outcome = "defined"
                /\ lastDefine.stored = MacroDefinition(lastDefine.name, Null, Null, Null, b)
                /\ lookup(macro_lookup, lastDefine.name) = lastDefine.stored
    /\ \A j \in 1..Len(macro_lookup) :
          (/\ macro_lookup[j].full_val = Null
           /\ macro_lookup[j].cbn_val = Null
           /\ macro_lookup[j].cbv_val = Null)
             => \A strat \in Strategies :
                   parse(<<macro_lookup[j].name>>, macro_lookup, strat) =
                      parsed(Macro(macro_lookup[j].name, macro_lookup[j].unreduced), 1)

\* The self-application term was defined, and then another macro
C9_Witness ==
    /\ lastDefine.code = DefI
    /\ lastDefine.outcome = "defined"
    /\ lookup(macro_lookup, "M") =
          MacroDefinition("M", Null, Null, Null, parse(TermOmega, <<>>, "Normal").expr)

(***************************************************************************)
(* Properties of SpecResolve                                               *)
(***************************************************************************)
\* C10: a reference to a defined macro resolves, under every strategy and for
\* every combination of present and absent slots, to full_val when present,
\* else to the slot of the strategy (cbv_val under CBV, cbn_val under CBN)
\* when present, else to the unreduced body; it never resolves to nothing.
C10_Resolution ==
    \A strategy \in Strategies : \A j \in 1..Len(macro_lookup) :
       \A mac \in {macro_lookup[j]} :
          \A want \in {IF mac.full_val # Null THEN mac.full_val
                       ELSE IF strategy = "CBV" /\ mac.cbv_val # Null THEN mac.cbv_val
                       ELSE IF strategy = "CBN" /\ mac.cbn_val # Null THEN mac.cbn_val
                       ELSE mac.unreduced} :
             /\ want # Null
             /\ parse(<<mac.name>>, macro_lookup, strategy) = parsed(Macro(mac.name, want), 1)
             /\ (strategy \in {"Normal", "Appl"} /\ mac.full_val = Null)
                   => want = mac.unreduced
             /\ (lastRun.code = ProgM /\ lastRun.strategy = strategy)
                   => lastRun.expr = Macro(mac.name, want)

\* A reference under CBV to a macro that has a cbv_val, another cbn_val and no
\* full_val was run
C10_Witness ==
    /\ lastRun.code = ProgM
    /\ lastRun.strategy = "CBV"
    /\ macro_lookup[1].full_val = Null
    /\ macro_lookup[1].cbv_val # Null
    /\ macro_lookup[1].cbn_val \notin {Null, macro_lookup[1].cbv_val}
    /\ lastRun.expr = Macro("M", macro_lookup[1].cbv_val)

(***************************************************************************)
(* Properties of recompilation and of the listing (SpecDefine)             *)
(***************************************************************************)
\* C11: after a successful redefinition of a macro, every macro that depends
\* on it, directly or through others, has been recompiled after it: each
\* entry of the table is the entry that defining its unreduced body afresh
\* against the table gives, and no reference inside a body still carries a
\* value of the body that was replaced.
C11_Recompiled ==
    \A j \in 1..Len(macro_lookup) :
        /\ reresolve(macro_lookup[j].unreduced, macro_lookup, "Normal")
              = macro_lookup[j].unreduced
        /\ recompile(macro_lookup, macro_lookup[j]) = macro_lookup

\* I was redefined with another value while A depended on I and B on A, and
\* A and B now hold the values of the new I
C11_Witness ==
    /\ lastDefine.code = DefI2
    /\ lastDefine.outcome = "defined"
    /\ lastDefine.replaced # Null
    /\ lastDefine.replaced.full_val = Abs("x", Var("x"))
    /\ lookup(macro_lookup, "I").full_val = Abs("x", Abs("y", Var("y")))
    /\ {<<"B", "A">>, <<"A", "I">>} \subseteq dependsOn(macro_lookup)
    /\ lookup(macro_lookup, "A").full_val = Macro("I", Abs("x", Abs("y", Var("y"))))
    /\ lookup(macro_lookup, "B").full_val = Abs("y", Var("y"))

\* The orders in which the macros of ml can be listed: each macro once
orders(ml) ==
    {p \in [1..Len(ml) -> 1..Len(ml)] : \A j, k \in 1..Len(ml) : p[j] = p[k] => j = k}

\* p lists every macro of ml after the macros its unreduced body references
dependenciesFirst(ml, p) ==
    \A j, k \in 1..Len(ml) :
        <<ml[p[k]].name, ml[p[j]].name>> \in dependsOn(ml) => j < k

\* The entry of the listing that shows macro
entryOf(macro) == macro.name \o " := " \o pretty(macro.unreduced)

\* C12: the macro listing contains every defined macro exactly once, and
\* whenever the unreduced body of a macro A references a macro B, the entry
\* of B comes before the entry of A.
C12_ListingOrdered ==
    \E p \in orders(macro_lookup) :
        /\ macroList = [j \in 1..Len(macro_lookup) |-> entryOf(macro_lookup[p[j]])]
        /\ dependenciesFirst(macro_lookup, p)

\* The table holds A, I and B in the order of their first definition, A was
\* redefined to reference I, and the listing shows I, A, B
C12_Witness ==
    /\ Len(macro_lookup) = 3
    /\ macro_lookup[1].name = "A"
    /\ macro_lookup[2].name = "I"
    /\ {<<"B", "A">>, <<"A", "I">>} \subseteq dependsOn(macro_lookup)
    /\ Len(macroList) = 3
    /\ macroList = <<entryOf(macro_lookup[2]), entryOf(macro_lookup[1]),
                     entryOf(macro_lookup[3])>>

(***************************************************************************)
(* Properties of resugaring (SpecSugar)                                    *)
(***************************************************************************)
\* Some macro of ml resolves to e under strategy
matched(e, ml, strategy) == \E j \in 1..Len(ml) : resolve(ml[j], strategy) = e

\* Some subtree of e is the resolved value of a macro of ml
RECURSIVE matchedInside(_, _, _)
matchedInside(e, ml, strategy) ==
    \/ matched(e, ml, strategy)
    \/ e.kind = "abs" /\ matchedInside(e.body, ml, strategy)
    \/ e.kind = "app" /\ (matchedInside(e.e1, ml, strategy)
                            \/ matchedInside(e.e2, ml, strategy))

\* r is e with each outermost subtree that is the resolved value of a macro
\* replaced by one reference to such a macro, the subtree kept whole under
\* the reference, and everything else as it was
RECURSIVE foldedOutermost(_, _, _, _)
foldedOutermost(e, r, ml, strategy) ==
    IF matched(e, ml, strategy)
    THEN /\ r.kind = "macro"
         /\ r.body = e
         /\ lookup(ml, r.name) # Null
         /\ resolve(lookup(ml, r.name), strategy) = e
    ELSE IF e.kind = "abs"
    THEN /\ r.kind = "abs"
         /\ r.vbl = e.vbl
         /\ foldedOutermost(e.body, r.body, ml, strategy)
    ELSE IF e.kind = "app"
    THEN /\ r.kind = "app"
         /\ foldedOutermost(e.e1, r.e1, ml, strategy)
         /\ foldedOutermost(e.e2, r.e2, ml, strategy)
    ELSE r = e

\* C13: resugar folds the outermost subtree that is structurally equal to
\* the resolved value of some macro into a single reference to that macro
\* and folds nothing nested inside a folded match; when no subtree equals
\* the resolved value of any macro it returns its input unchanged with
\* changed = false, and runCode then appends no entry to the trace.
C13_ResugarOutermost ==
    lastRun.outcome = "value" =>
        \A s \in {resugar(lastRun.final, lastRun.table, lastRun.strategy)} :
        \A trace \in {run(lastRun.expr, TIMEOUT, lastRun.strategy).steps} :
            /\ foldedOutermost(lastRun.final, s.expr, lastRun.table, lastRun.strategy)
            /\ s.changed = matchedInside(lastRun.final, lastRun.table, lastRun.strategy)
            /\ lastRun.sugared = s.changed
            /\ ~s.changed => (s.expr = lastRun.final /\ programResult = trace)
            /\ s.changed => programResult = Append(trace, "=   " \o pretty(s.expr))

\* With I and W defined, a term that is the value of W was folded into W
\* alone, although the value of I is a subtree of it
C13_Witness ==
    /\ lastRun.code = ProgNested
    /\ lastRun.outcome = "value"
    /\ lastRun.sugared
    /\ lookup(lastRun.table, "I") # Null
    /\ lookup(lastRun.table, "W") # Null
    /\ resugar(lastRun.final, lastRun.table, lastRun.strategy).expr
          = Macro("W", Abs("y", Abs("x", Var("x"))))
    /\ programResult[Len(programResult)] = "=   W"

(***************************************************************************)
(* The round trip of a macro through reduction and resugaring (SpecDefine) *)
(***************************************************************************)
\* The strategy whose value a definition stored, "none" when it stored none
definingStrategy(macro) ==
    IF macro.full_val # Null THEN "Normal"
    ELSE IF macro.cbn_val # Null THEN "CBN"
    ELSE IF macro.cbv_val # Null THEN "CBV"
    ELSE "none"

\* The unreduced body of macro reduced under strategy and the result
\* resugared against ml; Null when the reduction times out
roundTrip(macro, ml, strategy) ==
    LET k(r) == IF r.value = Null THEN Null ELSE resugar(r.value, ml, strategy).expr
    IN k(run(reresolve(macro.unreduced, ml, strategy), TIMEOUT, strategy))

\* The macros of ml whose resolved value under strategy is that of macro
sameValue(macro, ml, strategy) ==
    {j \in 1..Len(ml) : resolve(ml[j], strategy) = resolve(macro, strategy)}

\* C14 as claimed: for every macro whose body converges, reducing its
\* unreduced body under its defining strategy and resugaring the result
\* yields a reference to the macro's own name, also when another macro of the
\* table has a structurally equal value.
C14_RoundTripOwnName ==
    \A j \in 1..Len(macro_lookup) :
        definingStrategy(macro_lookup[j]) # "none" =>
            \A r \in {roundTrip(macro_lookup[j], macro_lookup,
                                definingStrategy(macro_lookup[j]))} :
                /\ r # Null
                /\ r.kind = "macro"
                /\ r.name = macro_lookup[j].name

\* C14: for every macro whose body converges, reducing its unreduced body
\* under its defining strategy and resugaring the result yields a reference
\* to a macro of the table whose resolved value is structurally equal to the
\* macro's own: its own name when no other macro of the table has that value.
C14_RoundTripEqualValue ==
    \A j \in 1..Len(macro_lookup) :
        definingStrategy(macro_lookup[j]) # "none" =>
            \A strategy \in {definingStrategy(macro_lookup[j])} :
            \A r \in {roundTrip(macro_lookup[j], macro_lookup, strategy)} :
                /\ r # Null
                /\ r.kind = "macro"
                /\ \E k \in sameValue(macro_lookup[j], macro_lookup, strategy) :
                      r.name = macro_lookup[k].name
                /\ sameValue(macro_lookup[j], macro_lookup, strategy) = {j}
                      => r.name = macro_lookup[j].name

\* I and A hold the same value and B another one: B comes back as B, and I
\* and A both come back as the same name
C14_Witness ==
    /\ Len(macro_lookup) = 3
    /\ lookup(macro_lookup, "I") # Null
    /\ lookup(macro_lookup, "A") # Null
    /\ lookup(macro_lookup, "B") # Null
    /\ lookup(macro_lookup, "I").full_val = lookup(macro_lookup, "A").full_val
    /\ lookup(macro_lookup, "B").full_val # lookup(macro_lookup, "A").full_val
    /\ roundTrip(lookup(macro_lookup, "B"), macro_lookup, "Normal").name = "B"
    /\ roundTrip(lookup(macro_lookup, "I"), macro_lookup, "Normal").name
         = roundTrip(lookup(macro_lookup, "A"), macro_lookup, "Normal").name

(***************************************************************************)
(* Properties of substitution (SpecSubst)                                  *)
(***************************************************************************)
\* Where r has value in place of a free occurrence of boundName in e, no
\* free variable of value is among bound, the binders of r above that place
RECURSIVE notCaptured(_, _, _, _, _)
notCaptured(e, r, boundName, value, bound) ==
    IF e.kind = "var"
    THEN IF e.name = boundName THEN r = value /\ free(value) \cap bound = {}
         ELSE r.kind = "var"
    ELSE IF e.kind = "app"
    THEN /\ r.kind = "app"
         /\ notCaptured(e.e1, r.e1, boundName, value, bound)
         /\ notCaptured(e.e2, r.e2, boundName, value, bound)
    ELSE IF e.kind = "abs"
    THEN IF e.vbl = boundName THEN r.kind = "abs"
         ELSE /\ r.kind = "abs"
              /\ notCaptured(e.body, r.body, boundName, value, bound \cup {r.vbl})
    ELSE r = e

\* The call is one the claim is about: Abs(y, b) with y not boundName and y
\* free in value, and substitute has returned
capturePossible ==
    /\ subst.result # Null
    /\ subst.body.vbl # subst.boundName
    /\ subst.body.vbl \in free(subst.value)

\* C15 as claimed: for any Abs(y, b), any boundName other than y and any
\* value in which y occurs free, the free variables of the substituted body
\* are (free(b) - {boundName}) with those of value, and no variable of value
\* is bound in the result.
C15_FreeSetOfBody ==
    capturePossible =>
        /\ subst.result.kind = "abs"
        /\ free(subst.result.body)
              = (free(subst.body.body) \ {subst.boundName}) \cup free(subst.value)
        /\ notCaptured(subst.body, subst.result, subst.boundName, subst.value, {})

\* C15: for any Abs(y, b), any boundName other than y and any value in which
\* y occurs free, the result is Abs(z, r) with z in neither b nor value; with
\* b' the body b after y is renamed to z, the free variables of r are
\* (free(b') - {boundName}) with those of value when boundName occurs free in
\* b, and those of b' when it does not; and no variable occurrence coming
\* from value is bound by a binder of the result.
C15_CaptureAvoiding ==
    capturePossible =>
        /\ subst.result.kind = "abs"
        /\ subst.result.vbl \notin names(subst.body.body) \cup names(subst.value)
        /\ \A renamed \in {rename(subst.body.body, subst.body.vbl, subst.result.vbl)} :
              free(subst.result.body)
                = IF subst.boundName \in free(subst.body.body)
                  THEN (free(renamed) \ {subst.boundName}) \cup free(subst.value)
                  ELSE free(renamed)
        /\ free(subst.result)
              = IF subst.boundName \in free(subst.body)
                THEN (free(subst.body) \ {subst.boundName}) \cup free(subst.value)
                ELSE free(subst.body)
        /\ notCaptured(subst.body, subst.result, subst.boundName, subst.value, {})

\* (\y.x y) with y for x: the binder was renamed, and the y put in is free
C15_Witness ==
    /\ capturePossible
    /\ subst.body = Abs("y", App(Var("x"), Var("y")))
    /\ subst.boundName = "x"
    /\ subst.value = Var("y")
    /\ subst.result.vbl # "y"
    /\ subst.result.body = App(Var("y"), Var(subst.result.vbl))
    /\ free(subst.result) = {"y"}

(***************************************************************************)
(* The four reducers side by side on closed terms                          *)
(***************************************************************************)
\* How many passes the reducers are followed for
StepBound == 30

ReduceNames == {"x", "y"}

\* (\x.x x)(\x.x x)
Omega == App(Abs("x", App(Var("x"), Var("x"))), Abs("x", App(Var("x"), Var("x"))))

\* The closed terms of up to two levels, and a reference to a macro whose
\* value is a normal form
ClosedSmall ==
    {t \in Grow(Grow({Var(n) : n \in ReduceNames}, ReduceNames), ReduceNames) :
        free(t) = {}}
    \cup {Macro("I", Abs("x", Var("x")))}

\* The closed terms reduced: the small ones, the applications of one to
\* another, and terms that hold a diverging subterm or use an argument twice
ReduceTerms ==
    ClosedSmall \cup {App(t, u) : t, u \in ClosedSmall}
    \cup {Abs("y", Omega),
          App(Abs("x", Abs("y", Var("x"))), Omega),
          App(Abs("x", Abs("y", Var("y"))), Omega),
          App(Abs("x", App(Var("x"), Var("x"))),
              App(Abs("x", App(Var("x"), Var("x"))),
                  App(Abs("y", Var("y")), Abs("y", Var("y")))))}

InitReduce ==
    /\ macro_lookup = init_macros
    /\ macroList = <<>>
    /\ macroError = ""
    /\ macroResult = <<>>
    /\ lastDefine = NoDefine
    /\ programError = ""
    /\ programResult = <<>>
    /\ lastRun = NoRun
    /\ loop = NoLoop
    /\ subst = NoSubst
    /\ \E t \in ReduceTerms :
          steppers = [initial |-> t, passes |-> 0,
                      at |-> [s \in Strategies |-> [expr |-> t, halted |-> FALSE]]]

\* One pass of each reducer that has not halted: it halts when it has no
\* step, as a pass of find_value or of run does
StepAll ==
    /\ steppers.passes < StepBound
    /\ \E s \in Strategies : ~steppers.at[s].halted
    /\ steppers' = [steppers EXCEPT
                       !.passes = @ + 1,
                       !.at = [s \in Strategies |-> settle(s, steppers.at[s])]]
    /\ UNCHANGED <<macro_lookup, macroList, macroError, macroResult, lastDefine,
                   programError, programResult, lastRun, loop, subst>>

SpecReduce == InitReduce /\ [][StepAll]_vars

\* add_macro takes the fallback for full_expr: normal order found no value
fallbackTaken(full_expr) == find_value(full_expr, "Normal").value = Null

C18_NormalFormIsValue ==
    \A s \in Strategies :
        (steppers.at[s].expr # Null /\ reduce("Normal", steppers.at[s].expr) = Null)
           => \A other \in Strategies : reduce(other, steppers.at[s].expr) = Null

\* I I: every reducer has stopped at the reference I, a normal form
C18_Witness ==
    /\ steppers.initial = App(Macro("I", Abs("x", Var("x"))),
                              Macro("I", Abs("x", Var("x"))))
    /\ \A s \in Strategies :
          /\ steppers.at[s].halted
          /\ steppers.at[s].expr = Macro("I", Abs("x", Var("x")))
          /\ reduce(s, steppers.at[s].expr) = Null

(***************************************************************************)
(* Properties of a session with both boxes (Spec)                          *)
(***************************************************************************)
\* C19: the macro table is changed only by a definition or redefinition: a
\* run of the program box (parsing, evaluating under any strategy and
\* resugaring) leaves the table and its listing as they were, whether it
\* ends with a value, a timeout or a parse error, and a step that changes
\* the table is an accepted definition.
C19_OnlyDefinitionWrites ==
    [][/\ (lastRun' # lastRun \/ programResult' # programResult
             \/ programError' # programError)
             => /\ macro_lookup' = macro_lookup
                /\ macroList' = macroList
       /\ macro_lookup' # macro_lookup
             => /\ lastDefine'.outcome = "defined"
                /\ lastRun' = lastRun
                /\ programResult' = programResult]_vars

\* A program has timed out against a table of two macros, which is still
\* the table
C19_Witness ==
    /\ lastRun.outcome = "timeout"
    /\ lastRun.code = ProgOmega
    /\ Len(lastRun.table) = 2
    /\ macro_lookup = lastRun.table
    /\ Len(macroList) = 2

\* The last definition entered was refused because it closes a cycle
refused(define, message) == define.outcome = "error" /\ message = CyclicMessage

\* ml is a table a reader may see: it has no cycle, and the definition that
\* define refused, if it refused one, is not in it
accepted(ml, define, message) ==
    /\ acyclic(ml)
    /\ refused(define, message)
          => /\ define.stored # Null
             /\ ~acyclic(store(ml, define.stored))
             /\ lookup(ml, define.name) # define.stored

\* C20: a definition is atomic for its readers: whatever the order of the
\* events of the two boxes, each handler running to its end, the table a
\* program is evaluated against and the table the macro list shows never
\* hold a definition that was refused for closing a cycle.
C20_ReadersSeeNoRefused ==
    [][/\ (lastRun' # lastRun /\ lastRun'.outcome \in {"value", "timeout", "error"})
             => /\ lastRun'.table = macro_lookup
                /\ accepted(lastRun'.table, lastDefine, macroError)
       /\ accepted(macro_lookup', lastDefine', macroError')
       /\ \E p \in orders(macro_lookup') :
             macroList' = [j \in 1..Len(macro_lookup') |-> entryOf(macro_lookup'[p[j]])]
       /\ refused(lastDefine', macroError')
             => \A j \in 1..Len(macroList') : macroList'[j] # entryOf(lastDefine'.stored)]_vars

\* I := A was refused while A := I was in the table, and a program that
\* refers to I was then evaluated against the table without it
C20_Witness ==
    /\ refused(lastDefine, macroError)
    /\ lastDefine.code = DefIA
    /\ lastRun.after = DefIA
    /\ lastRun.code = ProgIII
    /\ lastRun.outcome = "value"
    /\ lastRun.table = macro_lookup
    /\ lookup(lastRun.table, "A") # Null
    /\ lookup(lastRun.table, "I").unreduced = Abs("x", Var("x"))
    /\ lastDefine.stored.unreduced.kind = "macro"
    /\ Len(macroList) = 2

(***************************************************************************)
(* Properties of the entries add_macro writes (SpecEval)                   *)
(***************************************************************************)
\* The names that have an entry in ml
definedNames(ml) == {ml[j].name : j \in 1..Len(ml)}

\* slot is absent, or it is the value strategy finds for body
fromBody(slot, strategy, body) ==
    slot = Null \/ slot = valueWithin(strategy, body, TIMEOUT)

\* C21: a successful define on a name that is already in the table replaces
\* the entry as a whole: afterwards its unreduced body is the new body and
\* each value slot is absent or computed from the new body, so no slot of
\* the old definition survives; and no define call removes a name from the
\* table.
C21_WholeEntryReplaced ==
    [][/\ definedNames(macro_lookup) \subseteq definedNames(macro_lookup')
       /\ Len(macro_lookup') >= Len(macro_lookup)
       /\ (lastDefine'.outcome = "defined" /\ lastDefine'.replaced # Null
             /\ lookup(macro_lookup, lastDefine'.name) = lastDefine'.replaced)
             => \A m \in {lookup(macro_lookup', lastDefine'.name)} :
                   /\ m # Null
                   /\ m.unreduced = lastDefine'.full_expr
                   /\ fromBody(m.full_val, "Normal", m.unreduced)
                   /\ fromBody(m.cbn_val, "CBN", m.unreduced)
                   /\ fromBody(m.cbv_val, "CBV", m.unreduced)
                   /\ Len(macro_lookup') = Len(macro_lookup)]_vars

\* M held the values of \z.(\x.x x)(\x.x x) and was redefined as
\* (\x.x x)(\x.x x): every slot is absent now
C21_Witness ==
    /\ lastDefine.code = DefOmega
    /\ lastDefine.outcome = "defined"
    /\ lastDefine.replaced # Null
    /\ lastDefine.replaced.cbn_val # Null
    /\ lastDefine.replaced.cbv_val # Null
    /\ lookup(macro_lookup, "M").unreduced = lastDefine.full_expr
    /\ lookup(macro_lookup, "M").cbn_val = Null
    /\ lookup(macro_lookup, "M").cbv_val = Null
    /\ lookup(macro_lookup, "M").full_val = Null
    /\ Len(macro_lookup) = 2

(***************************************************************************)
(* The last step of a runner (SpecLoop)                                    *)
(***************************************************************************)
\* The value the reducer produces from e by exactly its n-th step, Null when
\* it stops earlier or has produced no value by then
valueAtStep(strat, e, n) ==
    IF valueWithin(strat, e, n) # Null THEN Null ELSE valueWithin(strat, e, n + 1)

\* C22: the bounded runner reports a value only when the term reaches it in
\* at most budget - 1 steps; for a term whose first value is produced by
\* exactly the budget-th step it returns none with budget trace entries, and
\* the value just computed is neither the result nor rendered in the trace.
C22_LastStepUnchecked ==
    loop.st.done
       => /\ loop.st.value # Null
                => /\ Len(loop.st.steps) - 1 <= budgetOf(loop.runner) - 1
                   /\ loop.st.value
                         = valueWithin(loop.reducer, loop.initial, budgetOf(loop.runner))
          /\ \A v \in {valueAtStep(loop.reducer, loop.initial, budgetOf(loop.runner))} :
                v # Null
                   => /\ loop.st.value = Null
                      /\ Len(loop.st.steps) = budgetOf(loop.runner)
                      /\ \A k \in 1..Len(loop.st.steps) : loop.st.steps[k] # pretty(v)
                      /\ \A t \in {traced(loop.reducer, loop.initial, loop.st.steps)} :
                            t # Null /\ reduce(loop.reducer, t) = v

\* find_value ran a term by name that becomes \y.y by its 100th step: the run
\* timed out and its last entry renders the term one step before the value
C22_Witness ==
    /\ loop.st.done
    /\ loop.runner = "find_value"
    /\ loop.reducer = "CBN"
    /\ valueAtStep("CBN", loop.initial, TIMEOUT) = Abs("y", Var("y"))
    /\ loop.st.value = Null
    /\ Len(loop.st.steps) = TIMEOUT
    /\ reduce("CBN", traced("CBN", loop.initial, loop.st.steps)) = Abs("y", Var("y"))

\* The entries add_macro has written: those of the table and the one the last
\* define call stored
written ==
    {macro_lookup[j] : j \in 1..Len(macro_lookup)}
       \cup (IF lastDefine.stored = Null THEN {} ELSE {lastDefine.stored})

\* C23: in every MacroDefinition written by add_macro, a normal form is
\* stored without a call-by-value and a call-by-name value, and a
\* call-by-value value is never stored without a call-by-name value.
C23_SlotsConsistent ==
    \A m \in written :
       /\ m.full_val # Null => (m.cbv_val = Null /\ m.cbn_val = Null)
       /\ m.cbv_val # Null => m.cbn_val # Null

\* I is stored with its normal form alone, and M, whose body has no normal
\* form, was just stored with both strategies' values
C23_Witness ==
    /\ lastDefine.code = DefUnder
    /\ lastDefine.outcome = "defined"
    /\ lastDefine.stored = lookup(macro_lookup, "M")
    /\ lastDefine.stored.full_val = Null
    /\ lastDefine.stored.cbv_val # Null
    /\ lastDefine.stored.cbn_val # Null
    /\ lookup(macro_lookup, "I") # Null
    /\ lookup(macro_lookup, "I").full_val # Null
    /\ lookup(macro_lookup, "I").cbv_val = Null
    /\ lookup(macro_lookup, "I").cbn_val = Null

====
